---------------------------- MODULE Spec2Model ----------------------------
(***************************************************************************)
(* A model of mindoc (src/mindoc.py): the fence segmenters for .py and     *)
(* .sql sources, the table-of-contents / cross-reference pass, and the     *)
(* make_docs / main driver.                                                *)
(*                                                                         *)
(* Text is a sequence of atoms.  An atom is a one-character string (a      *)
(* newline, a double quote, a bracket, a letter, ...) or one indivisible   *)
(* run of generated markup such as "<br>" or "</div>".  A markup run is    *)
(* kept in one piece only where none of the patterns the program searches  *)
(* for can match across its boundary: every such run starts with "<" or a  *)
(* backtick and ends with ">", a backtick or a letter, and no searched     *)
(* pattern contains these characters.                                      *)
(***************************************************************************)
EXTENDS Naturals, Integers, Sequences, FiniteSets, TLC

VARIABLES
    code,           \* get_code's result: the source text of the file at hand
    pre_html,       \* the segmenter's output (convert_*_blocks)
    body,           \* the elements of the rendered document, as the parser sees them
    html,           \* make_docs' html: convert_to_html's result, then create_toc's
    stage,          \* position of the conversion at hand
    heading,        \* create_toc: header.string of the heading at hand
    header_id,      \* create_toc: header['id']
    header_string,  \* create_toc: header_string, the identifier just derived
    pc,             \* main's position
    watch,          \* args.watch
    files,          \* glob.glob(args.src_path)
    code_files,     \* main's code_files, make_docs' argument
    file_number,    \* make_docs: position of the for loop in code_files
    disk,           \* the source files: path -> text
    docs,           \* the written documentation files: path -> text
    writable,       \* whether the destinations can be opened for writing
    polls,          \* completed iterations of the watch loop (saturating)
    log,            \* the reads and writes of the make_docs call at hand
    print_production, \* make_docs' argument print_production
    stdout          \* the lines printed so far

\* The variables of the segmenters, of the table-of-contents pass, of the
\* identifier derivation and of the driver
segVars == <<code, pre_html>>
tocVars == <<body, html>>
idVars == <<heading, header_id, header_string>>
outVars == <<print_production, stdout>>
mainVars == <<pc, watch, files, code_files, file_number, disk, docs, writable, polls, log,
              outVars>>

vars == <<code, pre_html, body, html, stage, idVars, mainVars>>

-----------------------------------------------------------------------------
(* Bounds *)

MaxLines == 6
MaxFences == 5
MaxChunks == 7
MaxChars == 6
MaxNodes == 4
MaxHeading == 4
MaxPolls == 1
MaxDocLines == 4

-----------------------------------------------------------------------------
(* Python's str primitives on atom sequences *)

NL == "\n"
CR == "\r"
QUOTE == "\""

\* s[i..] starts with pat
StartsAt(s, i, pat) ==
    /\ i >= 1
    /\ i + Len(pat) - 1 <= Len(s)
    /\ SubSeq(s, i, i + Len(pat) - 1) = pat

\* str.find: the least index >= from where pat occurs, 0 when there is none
Find(s, pat, from) ==
    LET hits == {i \in from..Len(s) : StartsAt(s, i, pat)}
    IN  IF hits = {} THEN 0 ELSE CHOOSE i \in hits : \A j \in hits : i <= j

\* str.endswith
EndsWith(s, suffix) ==
    /\ Len(suffix) <= Len(s)
    /\ SubSeq(s, Len(s) - Len(suffix) + 1, Len(s)) = suffix

\* pat in s
Contains(s, pat) == Find(s, pat, 1) # 0

\* str.replace(old, new, count): leftmost non-overlapping occurrences, at
\* most count of them; a negative count means all of them.
RECURSIVE Replace(_, _, _, _)
Replace(s, old, new, count) ==
    IF count = 0 THEN s
    ELSE LET i == Find(s, old, 1)
         IN  IF i = 0 THEN s
             ELSE SubSeq(s, 1, i - 1) \o new
                  \o Replace(SubSeq(s, i + Len(old), Len(s)), old, new, count - 1)

ReplaceAll(s, old, new) == Replace(s, old, new, -1)

-----------------------------------------------------------------------------
(* Some handy functions (src/mindoc.py 558-570) *)

tag(element_name) == "<" \o element_name \o ">"

endtag(element_name) == "<" \o "/" \o element_name \o ">"

\* re.sub with a counting callback: the c-th match (from 0) is kept when
\* c % nth is non-zero and replaced otherwise.  The pattern is a literal (the
\* only caller passes "\n\"\"\"\n", which holds no regex metacharacter).
RECURSIVE ReplaceNthFrom(_, _, _, _, _)
ReplaceNthFrom(s, sub, with, nth, c) ==
    LET i == Find(s, sub, 1)
    IN  IF i = 0 THEN s
        ELSE SubSeq(s, 1, i - 1)
             \o (IF c % nth # 0 THEN sub ELSE with)
             \o ReplaceNthFrom(SubSeq(s, i + Len(sub), Len(s)), sub, with, nth, c + 1)

\* Mutant: the callback's test inverted (the counter starts one off).
replace_every_nth_flipped(original_string, substring_to_replace, replace_with, nth) ==
    ReplaceNthFrom(original_string, substring_to_replace, replace_with, nth, 1)

\* Mutant: every match is replaced, not every nth.
replace_every_nth_all(original_string, substring_to_replace, replace_with, nth) ==
    ReplaceAll(original_string, substring_to_replace, replace_with)

replace_every_nth(original_string, substring_to_replace, replace_with, nth) ==
    ReplaceNthFrom(original_string, substring_to_replace, replace_with, nth, 0)

-----------------------------------------------------------------------------
(* convert_python_blocks (src/mindoc.py 201-236) *)

windows_newline == <<CR, NL>>

\* Windows newline fix
FixNewlines(text) ==
    IF Contains(text, windows_newline)
    THEN ReplaceAll(text, windows_newline, <<NL>>)
    ELSE text

first_ftdq == <<QUOTE, QUOTE, QUOTE, NL>>

\* Mutant: a delimiter need not start its line.
ftdq_any_indent == <<QUOTE, QUOTE, QUOTE, NL>>

ftdq == <<NL, QUOTE, QUOTE, QUOTE, NL>>

br == tag("br")
div == tag("div")
ediv == endtag("div")
collapsible_button ==
    tag("button type=\"button\" class=\"collapsible\" style=\"width: 80px; text-align:center; margin-bottom:0px;\"")
ebutton == endtag("button")
content_div == tag("div style=\" margin: 0;\" class=\"content\"")

\* The markdown code fence, three backticks, as one atom (a backtick cannot be
\* written in a string of this language).
BACKTICKS == "(3 backticks)"

md_python_start == <<NL, BACKTICKS, "python", NL, NL>>
md_python_end == <<BACKTICKS, NL, NL>>
py_replace_with_pre ==
    <<NL, br, br, collapsible_button, "View code", ebutton, content_div>>
    \o md_python_start
py_replace_with_post == <<NL>> \o md_python_end \o <<ediv, NL>>

\* Mutant: the first fence is left in place.
RemoveFirstFtdq_kept(text) == text

\* Remove first fenced triplet of double quotes
RemoveFirstFtdq(text) == Replace(text, first_ftdq, <<>>, 1)

\* Mutant: the closing markup is not appended at the end.
convert_python_blocks_noappend(text) ==
    LET fixed == FixNewlines(text)
        s0 == RemoveFirstFtdq(fixed)
        s1 == replace_every_nth(s0, ftdq, py_replace_with_pre, 2)
    IN  ReplaceAll(s1, ftdq, py_replace_with_post)

convert_python_blocks(text) ==
    LET fixed == FixNewlines(text)
        s0 == RemoveFirstFtdq(fixed)
        s1 == replace_every_nth(s0, ftdq, py_replace_with_pre, 2)
        s2 == ReplaceAll(s1, ftdq, py_replace_with_post)
    IN  s2 \o py_replace_with_post

-----------------------------------------------------------------------------
(* Sources of the .py kind: lines joined by newlines *)

FenceLine == <<QUOTE, QUOTE, QUOTE>>
IndentedFenceLine == <<" ", QUOTE, QUOTE, QUOTE>>
TextLine == <<"a">>
EmptyLine == <<>>
PyLineKinds == {FenceLine, IndentedFenceLine, TextLine, EmptyLine}

RECURSIVE JoinLines(_, _)
JoinLines(lines, sep) ==
    IF Len(lines) = 0 THEN <<>>
    ELSE IF Len(lines) = 1 THEN lines[1]
    ELSE lines[1] \o sep \o JoinLines(Tail(lines), sep)

SeqsUpTo(S, n) == UNION {[1..k -> S] : k \in 1..n}

\* """doc"""\ncode
PyExampleInline ==
    <<QUOTE, QUOTE, QUOTE, "d", "o", "c", QUOTE, QUOTE, QUOTE, NL, "c", "o", "d", "e">>
\* """\ndoc\n"""\ncode
PyExampleFenced ==
    <<QUOTE, QUOTE, QUOTE, NL, "d", "o", "c", NL, QUOTE, QUOTE, QUOTE, NL, "c", "o", "d", "e">>

\* Sources written to the convention: a fence line, a documentation block, a
\* fence line, a code block, ... with up to MaxFences fence lines.
BlockKinds == {TextLine, IndentedFenceLine}
ConventionLines ==
    {ls \in SeqsUpTo(BlockKinds \cup {FenceLine}, 2 * MaxFences) :
        \A i \in 1..Len(ls) : (ls[i] = FenceLine) <=> (i % 2 = 1)}

PySources ==
    {JoinLines(ls, sep) : ls \in SeqsUpTo(PyLineKinds, MaxLines), sep \in {<<NL>>, windows_newline}}
    \cup {JoinLines(ls, <<NL>>) \o end : ls \in ConventionLines, end \in {<<>>, <<NL>>}}
    \cup {PyExampleInline, PyExampleFenced}

-----------------------------------------------------------------------------
(* The .py segmenter applied to one source *)

NoToc ==
    /\ body = <<>>
    /\ html = <<>>

NoId ==
    /\ heading = <<>>
    /\ header_id = <<>>
    /\ header_string = <<>>

\* No driver: the function at hand is called on its own
NoMain ==
    /\ pc = "call"
    /\ watch = FALSE
    /\ files = <<>>
    /\ code_files = <<>>
    /\ file_number = 0
    /\ disk = <<>>
    /\ docs = <<>>
    /\ writable = TRUE
    /\ polls = 0
    /\ log = <<>>
    /\ print_production = FALSE
    /\ stdout = <<>>

InitPy ==
    /\ code \in PySources
    /\ pre_html = <<>>
    /\ stage = "read"
    /\ NoToc
    /\ NoId
    /\ NoMain

ConvertPython ==
    /\ stage = "read"
    /\ pre_html' = convert_python_blocks(code)
    /\ stage' = "segmented"
    /\ UNCHANGED <<code, tocVars, idVars, mainVars>>

NextPy == ConvertPython

SpecPy == InitPy /\ [][NextPy]_vars

\* Python files that begin with a fence line and go on with docstrings as code
\* has them: a fence line, an indented delimiter, a delimiter with text after
\* it, before it, or on both sides, and plain text.
DocstringSources ==
    LET kinds == {FenceLine, IndentedFenceLine, TextLine,
                  <<QUOTE, QUOTE, QUOTE, "a">>,
                  <<"a", QUOTE, QUOTE, QUOTE>>,
                  <<QUOTE, QUOTE, QUOTE, "a", QUOTE, QUOTE, QUOTE>>}
    IN  UNION {{JoinLines(<<FenceLine>> \o ls, sep) \o end :
                    ls \in SeqsUpTo(kinds, MaxDocLines), end \in {<<>>, sep}} :
               sep \in {<<NL>>, windows_newline}}

InitPyDoc ==
    /\ code \in DocstringSources
    /\ pre_html = <<>>
    /\ stage = "read"
    /\ NoToc
    /\ NoId
    /\ NoMain

SpecPyDoc == InitPyDoc /\ [][ConvertPython]_vars

-----------------------------------------------------------------------------
(* convert_sql_blocks (src/mindoc.py 245-274) *)

comment_start == <<"/", "*">>
comment_end == <<"*", "/">>

md_sql_start == <<NL, BACKTICKS, "sql">>
md_sql_end == <<BACKTICKS, NL>>
sql_replace_with_pre ==
    <<br, collapsible_button, "View code", ebutton, content_div>> \o md_sql_start
sql_replace_with_post == md_sql_end \o <<ediv, NL>>

\* Mutant: every comment ender is replaced, not only the first.
convert_sql_blocks_all_enders(text) ==
    LET fixed == FixNewlines(text)
        s0 == Replace(fixed, comment_start, <<>>, 1)
        s1 == ReplaceAll(s0, comment_end, sql_replace_with_pre)
    IN  s1 \o sql_replace_with_post

convert_sql_blocks(text) ==
    LET fixed == FixNewlines(text)
        \* Remove first comment block starter
        s0 == Replace(fixed, comment_start, <<>>, 1)
        \* Replace first comment block ender with a code block starter
        s1 == Replace(s0, comment_end, sql_replace_with_pre, 1)
    IN  s1 \o sql_replace_with_post

-----------------------------------------------------------------------------
(* Sources of the .sql kind: runs of comment delimiters, text and Windows   *)
(* newlines, and short runs of the single characters the delimiters are     *)
(* made of                                                                  *)

SqlChunkKinds == {comment_start, comment_end, <<"a">>, windows_newline}
SqlCharKinds == {<<"/">>, <<"*">>, <<"a">>}

RECURSIVE Flatten(_)
Flatten(chunks) ==
    IF Len(chunks) = 0 THEN <<>> ELSE chunks[1] \o Flatten(Tail(chunks))

SqlSources ==
    {Flatten(cs) : cs \in SeqsUpTo(SqlChunkKinds, MaxChunks)}
    \cup {Flatten(cs) : cs \in SeqsUpTo(SqlCharKinds, MaxChars)}

InitSql ==
    /\ code \in SqlSources
    /\ pre_html = <<>>
    /\ stage = "read"
    /\ NoToc
    /\ NoId
    /\ NoMain

ConvertSql ==
    /\ stage = "read"
    /\ pre_html' = convert_sql_blocks(code)
    /\ stage' = "segmented"
    /\ UNCHANGED <<code, tocVars, idVars, mainVars>>

NextSql == ConvertSql

SpecSql == InitSql /\ [][NextSql]_vars

-----------------------------------------------------------------------------
(* The rendered document (src/mindoc.py 285-480, 505)                       *)
(*                                                                         *)
(* convert_to_html's result is a page: a head, the rendered body, the      *)
(* scripts.  body holds the elements of the rendered body in document      *)
(* order, as BeautifulSoup's parser yields them: a heading h1..h6 with its *)
(* string, or a run of text.  Heading strings hold no markup (a heading    *)
(* with a child element has no .string and create_toc raises on it) and    *)
(* are not empty.                                                          *)

Whitespace == {" ", "\t", "\n", "\r", "\f"}

\* str.strip()
RECURSIVE LStrip(_)
LStrip(s) ==
    IF s # <<>> /\ s[1] \in Whitespace THEN LStrip(Tail(s)) ELSE s

RECURSIVE RStrip(_)
RStrip(s) ==
    IF s # <<>> /\ s[Len(s)] \in Whitespace THEN RStrip(SubSeq(s, 1, Len(s) - 1)) ELSE s

Strip(s) == RStrip(LStrip(s))

\* str.replace of one character by a string
RECURSIVE ReplaceChar(_, _, _)
ReplaceChar(s, c, new) ==
    IF s = <<>> THEN <<>>
    ELSE (IF s[1] = c THEN new ELSE <<s[1]>>) \o ReplaceChar(Tail(s), c, new)

UpperCase ==
    <<"A", "B", "C", "D", "E", "F", "G", "H", "I", "J", "K", "L", "M",
      "N", "O", "P", "Q", "R", "S", "T", "U", "V", "W", "X", "Y", "Z">>
LowerCase ==
    <<"a", "b", "c", "d", "e", "f", "g", "h", "i", "j", "k", "l", "m",
      "n", "o", "p", "q", "r", "s", "t", "u", "v", "w", "x", "y", "z">>

\* str.lower(), on the ASCII letters
LowerChar(c) ==
    IF \E k \in 1..26 : UpperCase[k] = c
    THEN LowerCase[CHOOSE k \in 1..26 : UpperCase[k] = c]
    ELSE c
Lower(s) == [k \in 1..Len(s) |-> LowerChar(s[k])]

\* The page around the body, raw.  The first script indexes coll[i]: its
\* square brackets are text of the page like any other.
PAGE_HEAD == "<!DOCTYPE html><html><head>(meta)(style)</head><body>"
SCRIPT_OPEN == "<script>(var coll ...; for ...) coll"
SCRIPT_REST == ".addEventListener(...) ...</script>(scripts)"
PAGE_TAIL == "</body></html>"
PageScript == <<SCRIPT_OPEN, "[", "i", "]", SCRIPT_REST>>

IsIndexed(node) == node.name \in {"h1", "h2", "h3", "h4"}

RawNode(node) ==
    IF node.name = "text" THEN node.string \o <<NL>>
    ELSE <<tag(node.name)>> \o node.string \o <<endtag(node.name), NL>>

RECURSIVE RawNodes(_)
RawNodes(nodes) ==
    IF nodes = <<>> THEN <<>> ELSE RawNode(nodes[1]) \o RawNodes(Tail(nodes))

\* html = tag('!DOCTYPE html') + ... + body + script + endtag('body') + endtag('html')
RawHtml(nodes) == <<PAGE_HEAD>> \o RawNodes(nodes) \o PageScript \o <<PAGE_TAIL>>

-----------------------------------------------------------------------------
(* create_toc (src/mindoc.py 503-552) *)

toc_tag == <<"[", "T", "O", "C", "]">>

\* header.string.replace('\n','').replace('\t','').strip()
Trimmed(string) == Strip(ReplaceChar(ReplaceChar(string, NL, <<>>), "\t", <<>>))

\* Mutant: the identifier is not lowercased.
HeaderId_nolower(string) ==
    ReplaceChar(ReplaceChar(Trimmed(string), " ", <<"_">>), ".", <<"_">>)

\* header_string = header.string.replace('\n','').replace('\t','').strip()
\*                              .replace(' ','_').replace('.','_').lower()
HeaderId(string) ==
    Lower(ReplaceChar(ReplaceChar(Trimmed(string), " ", <<"_">>), ".", <<"_">>))

\* soup.findAll(['h1', 'h2', 'h3', 'h4']), and header_list
Headers(nodes) == SelectSeq(nodes, IsIndexed)
header_list(nodes) ==
    LET hs == Headers(nodes)
    IN  [k \in 1..Len(hs) |-> [string |-> hs[k].string, id |-> HeaderId(hs[k].string)]]

skip_first == 1

\* Mutant: the first heading is not skipped.
NeedsBackLink_all(tag_number) == tag_number >= skip_first

\* link back to toc: if tag_number > skip_first
NeedsBackLink(tag_number) == tag_number > skip_first

Indent(name) ==
    CASE name = "h1" -> "margin-left: 0px;"
      [] name = "h2" -> "margin-left: 20px;"
      [] name = "h3" -> "margin-left: 40px;"
      [] name = "h4" -> "margin-left: 60px;"

TocTitle ==
    <<tag("h3 style=\"color: #555\" id=\"toc\""), "Table of Contents", endtag("h3")>>

\* One entry of the table of contents (line 537)
TocEntry(node) ==
    <<tag("p style=\"margin-top:0px; margin-bottom: 0px; " \o Indent(node.name) \o "\""),
      "<a style=\"color: #333; \" href=\"#">>
    \o HeaderId(node.string) \o <<"\">">>
    \o node.string \o <<endtag("a"), endtag("p"), NL>>

RECURSIVE TocEntries(_)
TocEntries(hs) ==
    IF hs = <<>> THEN <<>> ELSE TocEntry(hs[1]) \o TocEntries(Tail(hs))

toc_html(nodes) == TocTitle \o TocEntries(Headers(nodes)) \o <<tag("br"), NL>>

\* soup.prettify(formatter="html5"): every tag and every stripped, non-empty
\* string on a line of its own, indented by its depth
Ind(depth) == [k \in 1..depth |-> " "]

PrettyString(string, depth) ==
    IF Strip(string) = <<>> THEN <<>> ELSE Ind(depth) \o Strip(string) \o <<NL>>

BackLink ==
    Ind(2) \o <<"<a style=\"font-size: 10px; color: #555;\" href=\"#toc\">", NL>>
    \o Ind(3) \o <<"T", "O", "C", NL>>
    \o Ind(2) \o <<endtag("a"), NL>>
    \o Ind(2) \o <<tag("br"), NL>>

\* tag_number is the heading's number among the indexed ones (0 for others)
PrettyNode(node, tag_number) ==
    IF node.name = "text" THEN PrettyString(node.string, 2)
    ELSE Ind(2)
         \o (IF IsIndexed(node)
             THEN <<"<" \o node.name \o " id=\"">> \o HeaderId(node.string) \o <<"\">">>
             ELSE <<tag(node.name)>>)
         \o <<NL>> \o PrettyString(node.string, 3)
         \o Ind(2) \o <<endtag(node.name), NL>>
         \o (IF IsIndexed(node) /\ NeedsBackLink(tag_number) THEN BackLink ELSE <<>>)

RECURSIVE PrettyNodes(_, _)
PrettyNodes(nodes, tag_number) ==
    IF nodes = <<>> THEN <<>>
    ELSE IF IsIndexed(nodes[1])
         THEN PrettyNode(nodes[1], tag_number) \o PrettyNodes(Tail(nodes), tag_number + 1)
         ELSE PrettyNode(nodes[1], 0) \o PrettyNodes(Tail(nodes), tag_number)

PRETTY_HEAD == "<!DOCTYPE html>(nl)<html>(nl) <head>(meta)(style)</head>(nl) <body>"
PRETTY_TAIL == " </body>(nl)</html>"

Prettify(nodes) ==
    <<PRETTY_HEAD, NL>> \o PrettyNodes(nodes, 1)
    \o Ind(2) \o PageScript \o <<NL, PRETTY_TAIL, NL>>

\* Mutant: the marker is the bare heading text, without the brackets.
cross_ref_tag_bare(string) == Trimmed(string)

cross_ref_tag(string) == <<"[">> \o Trimmed(string) \o <<"]">>

cross_ref_html(header) ==
    <<"<a style=\"color: #555; text-decoration: none;\" href=\"#">>
    \o header.id \o <<"\">">> \o header.string \o <<endtag("a")>>

\* generate cross-reference links to headers: one pass per heading, in order
RECURSIVE CrossReference(_, _)
CrossReference(text, headers) ==
    IF headers = <<>> THEN text
    ELSE CrossReference(
            ReplaceAll(text, cross_ref_tag(headers[1].string), cross_ref_html(headers[1])),
            Tail(headers))

\* Mutant: every placeholder is replaced by the table of contents.
create_toc_every_placeholder(nodes) ==
    CrossReference(ReplaceAll(Prettify(nodes), toc_tag, toc_html(nodes)),
                   header_list(nodes))

create_toc(nodes) ==
    CrossReference(Replace(Prettify(nodes), toc_tag, toc_html(nodes), 1),
                   header_list(nodes))

-----------------------------------------------------------------------------
(* Rendered documents, and the table-of-contents step of make_docs          *)

Node(name, string) == [name |-> name, string |-> string]

TocText == Node("text", toc_tag)
NodeKinds ==
    {TocText,
     Node("text", <<"[", "A", "]">>),
     Node("h1", <<"A">>),
     Node("h2", <<"T", "O", "C">>),
     Node("h3", <<"[", "A", "]">>),
     Node("h4", <<" ", "i">>),
     Node("h5", <<"A">>)}

\* Headings Intro and Setup, and text that refers to both
ExampleIntroSetup ==
    <<Node("h1", <<"I", "n", "t", "r", "o">>),
      TocText,
      Node("h2", <<"S", "e", "t", "u", "p">>),
      Node("text", <<"[", "I", "n", "t", "r", "o", "]", " ",
                     "[", "S", "e", "t", "u", "p", "]">>)>>

\* Four headings
ExampleFourHeadings ==
    <<Node("h1", <<"A">>), TocText, Node("h2", <<"B", " ", "b", ".">>),
      Node("h3", <<"A">>), Node("h4", <<" ", "i">>)>>

Documents == SeqsUpTo(NodeKinds, MaxNodes) \cup {ExampleIntroSetup, ExampleFourHeadings}

InitToc ==
    /\ body \in Documents
    /\ html = RawHtml(body)
    /\ stage = "rendered"
    /\ code = <<>>
    /\ pre_html = <<>>
    /\ NoId
    /\ NoMain

\* make_docs 633-635: if toc_tag in html: html = create_toc(html)
TocPass ==
    /\ stage = "rendered"
    /\ html' = IF Contains(html, toc_tag) THEN create_toc(body) ELSE html
    /\ stage' = "toc_done"
    /\ UNCHANGED <<body, segVars, idVars, mainVars>>

NextToc == TocPass

SpecToc == InitToc /\ [][NextToc]_vars

-----------------------------------------------------------------------------
(* The heading identifier of create_toc (src/mindoc.py 514-516), derived    *)
(* from a heading's string, and derived again from the identifier          *)

\* The characters a heading string is made of here: an upper-case and a
\* lower-case letter, the characters the derivation replaces or removes,
\* and whitespace it does not name
HeadingChars == {"M", "y", " ", ".", "_", "\n", "\t", "\r"}

ExampleMySection == <<"M", "y", " ", "S", "e", "c", "t", "i", "o", "n", ".">>

HeadingStrings ==
    (SeqsUpTo(HeadingChars, MaxHeading) \ {<<>>}) \cup {ExampleMySection}

InitId ==
    /\ heading \in HeadingStrings
    /\ header_id = <<>>
    /\ header_string = <<>>
    /\ stage = "found"
    /\ code = <<>>
    /\ pre_html = <<>>
    /\ NoToc
    /\ NoMain

\* 514-515: header_string = header.string...lower(); header['id'] = header_string
DeriveId ==
    /\ stage = "found"
    /\ header_string' = HeaderId(heading)
    /\ header_id' = HeaderId(heading)
    /\ stage' = "identified"
    /\ UNCHANGED <<heading, segVars, tocVars, mainVars>>

\* 514 again, on a heading whose string is the identifier just produced
DeriveAgain ==
    /\ stage = "identified"
    /\ header_string' = HeaderId(header_id)
    /\ stage' = "identified_again"
    /\ UNCHANGED <<heading, header_id, segVars, tocVars, mainVars>>

NextId == DeriveId \/ DeriveAgain

SpecId == InitId /\ [][NextId]_vars

-----------------------------------------------------------------------------
(* The driver: main (src/mindoc.py 659-681), make_docs (619-656), get_code  *)
(* (186-190) and save_as (580-586), with the file system around them.      *)
(*                                                                         *)
(* A path is a sequence of characters.  The markdown renderer is not       *)
(* modelled: the rendered body of a file is taken to be one run of text,   *)
(* the segmenter's output.                                                 *)

PY == <<".", "p", "y">>
SQL == <<".", "s", "q", "l">>
MD == <<".", "m", "d">>
HTML == <<".", "h", "t", "m", "l">>

IsPy(path) == EndsWith(path, PY)
IsSql(path) == EndsWith(path, SQL)
IsMd(path) == EndsWith(path, MD)

\* Mutant: the supported files in the order glob gave them.
Filter_glob_order(fs) ==
    LET Supported(x) == IsPy(x) \/ IsSql(x) \/ IsMd(x) IN SelectSeq(fs, Supported)

\* main 668-670: code_files = the .py files, += the .sql files, += the .md files
Filter(fs) == SelectSeq(fs, IsPy) \o SelectSeq(fs, IsSql) \o SelectSeq(fs, IsMd)

\* os.path.split: the part before the last slash, without trailing slashes
\* unless it is slashes only, and the part after it
SplitAt(path) ==
    LET slashes == {k \in 1..Len(path) : path[k] = "/"}
    IN  IF slashes = {} THEN 0 ELSE CHOOSE k \in slashes : \A j \in slashes : j <= k

RECURSIVE RStripSlash(_)
RStripSlash(s) ==
    IF s # <<>> /\ s[Len(s)] = "/" THEN RStripSlash(SubSeq(s, 1, Len(s) - 1)) ELSE s

DirPath(path) ==
    LET head == SubSeq(path, 1, SplitAt(path))
    IN  IF \A k \in 1..Len(head) : head[k] = "/" THEN head ELSE RStripSlash(head)

FileName(path) == SubSeq(path, SplitAt(path) + 1, Len(path))

\* make_docs 637-651
html_file_path(code_file_path) ==
    LET dir_path == DirPath(code_file_path)
        file_name == FileName(code_file_path)
        html_name == ReplaceAll(ReplaceAll(ReplaceAll(file_name, PY, HTML), SQL, HTML), MD, HTML)
    IN  IF IsMd(file_name)
        THEN (IF dir_path = <<>> THEN <<".">> ELSE dir_path) \o <<"/">> \o html_name
        ELSE IF dir_path = <<>>
        THEN <<".", "/", "d", "o", "c", "s", "/">> \o html_name
        ELSE IF EndsWith(dir_path, <<"s", "r", "c">>)
        THEN SubSeq(dir_path, 1, Len(dir_path) - 3) \o <<"d", "o", "c", "s", "/">> \o html_name
        ELSE dir_path \o <<"/", "d", "o", "c", "s", "/">> \o html_name

\* Mutant: a file of no supported kind is taken as markdown.
blocks_of_as_markdown(code_file_path, text) ==
    IF IsPy(code_file_path) THEN convert_python_blocks(text)
    ELSE IF IsSql(code_file_path) THEN convert_sql_blocks(text)
    ELSE text

\* make_docs 621-630: the segmenter of the file's kind
blocks_of(code_file_path, text) ==
    IF IsPy(code_file_path) THEN convert_python_blocks(text)
    ELSE IF IsSql(code_file_path) THEN convert_sql_blocks(text)
    ELSE IF IsMd(code_file_path) THEN text
    ELSE <<>>

\* The files of the runs
a_py == <<"a", ".", "p", "y">>
src_b_py == <<"s", "r", "c", "/", "b", ".", "p", "y">>
d_q_sql == <<"d", "/", "q", ".", "s", "q", "l">>
r_md == <<"r", ".", "m", "d">>
n_txt == <<"n", ".", "t", "x", "t">>

Paths == {a_py, src_b_py, d_q_sql, r_md, n_txt}

\* What glob.glob may return: matching paths, in an order of its own
Globs ==
    {<<r_md, n_txt, a_py>>, <<d_q_sql, src_b_py>>, <<r_md, d_q_sql>>, <<src_b_py, a_py>>, <<n_txt>>}

\* The two texts a file holds, before and after an edit
PlainText == <<"A">>
TocFileText == toc_tag
Edited(text) == IF text = PlainText THEN TocFileText ELSE PlainText

Range(s) == {s[k] : k \in 1..Len(s)}

\* The paths make_docs' destination step is tried on: a directory (none,
\* the current one, src, a directory whose name ends in src, src further
\* up, ...), a file name with or without a second extension in it, and
\* the extension
PathInputs ==
    LET dirs == {<<>>, <<".">>, <<"s", "r", "c">>, <<".", "/", "s", "r", "c">>,
                 <<"m", "y", "s", "r", "c">>, <<"s", "r", "c", "/", "u">>,
                 <<"a", "/", "s", "r", "c">>, <<"d">>}
        stems == {<<"a">>, <<"a">> \o PY, <<"a">> \o MD, <<"a">> \o SQL, <<"s", "r", "c">>}
        exts == {PY, SQL, MD}
    IN  {(IF d = <<>> THEN <<>> ELSE d \o <<"/">>) \o st \o x :
             d \in dirs, st \in stems, x \in exts}

\* The segmenter's outputs, the table-of-contents pass and the destinations
\* for the files and texts of the runs, tabulated
FileTexts == {PlainText, TocFileText}

blocks_table == [p \in Paths |-> [text \in FileTexts |-> blocks_of(p, text)]]

RenderedBodies == {<<Node("text", blocks_table[p][text])>> : p \in Paths, text \in FileTexts}

create_toc_table == [nodes \in RenderedBodies |-> create_toc(nodes)]

html_file_path_table == [p \in Paths \cup PathInputs |-> html_file_path(p)]

Running == {"initial", "watching", "sleep", "direct"}
InMakeDocs == {"initial", "watching", "direct"}

Init ==
    /\ pc = "start"
    /\ watch \in BOOLEAN
    /\ files \in Globs
    /\ code_files = <<>>
    /\ file_number = 0
    /\ disk = [p \in Range(files) |-> PlainText]
    /\ docs = <<>>
    /\ writable = TRUE
    /\ polls = 0
    /\ log = <<>>
    /\ print_production = FALSE
    /\ stdout = <<>>
    /\ stage = "start"
    /\ code = <<>>
    /\ pre_html = <<>>
    /\ NoToc
    /\ NoId

\* The lines the program prints, each a sequence of atoms
NOT_SUPPORTED == <<"File type not supported">>
Report(path, out) == <<"Doc for ">> \o path \o <<" saved as ">> \o out \o <<".">>

\* make_docs' for loop starts on a list
Enter ==
    /\ file_number' = 1
    /\ log' = <<>>
    /\ stage' = "next"

\* main 660-672: the arguments, glob, the filter, and the initial make_docs
Startup ==
    /\ pc = "start"
    /\ code_files' = Filter(files)
    /\ pc' = "initial"
    /\ Enter
    /\ print_production' = TRUE
    /\ stdout' = Append(stdout, <<>>)
    /\ UNCHANGED <<segVars, tocVars, idVars, watch, files, disk, docs, writable, polls>>

code_file_path == code_files[file_number]

AtFile == pc \in InMakeDocs /\ file_number <= Len(code_files)

\* get_code: open, read, close
GetCode ==
    /\ AtFile /\ stage = "next"
    /\ code_file_path \in DOMAIN disk
    /\ code' = disk[code_file_path]
    /\ log' = Append(log, <<"read", code_file_path>>)
    /\ stage' = "read"
    /\ UNCHANGED <<pre_html, tocVars, idVars, outVars, pc, watch, files, code_files, file_number,
                   disk, docs, writable, polls>>

\* Mutant: the failed read is caught and the loop goes on to the next file.
GetCodeRaises_caught ==
    /\ AtFile /\ stage = "next"
    /\ code_file_path \notin DOMAIN disk
    /\ file_number' = file_number + 1
    /\ UNCHANGED <<segVars, tocVars, idVars, outVars, stage, pc, watch, files, code_files,
                   disk, docs, writable, polls, log>>

\* get_code: open raises, nothing catches it
GetCodeRaises ==
    /\ AtFile /\ stage = "next"
    /\ code_file_path \notin DOMAIN disk
    /\ pc' = "raised"
    /\ UNCHANGED <<segVars, tocVars, idVars, outVars, stage, watch, files, code_files, file_number,
                   disk, docs, writable, polls, log>>

\* make_docs 621-630
ConvertBlocks ==
    /\ AtFile /\ stage = "read"
    /\ pre_html' = blocks_table[code_file_path][code]
    /\ stdout' = IF IsPy(code_file_path) \/ IsSql(code_file_path) \/ IsMd(code_file_path)
                 THEN stdout
                 ELSE Append(stdout, NOT_SUPPORTED)
    /\ stage' = "segmented"
    /\ UNCHANGED <<code, tocVars, idVars, print_production, pc, watch, files, code_files,
                   file_number, disk, docs, writable, polls, log>>

\* make_docs 631: html = convert_to_html(pre_html)
ConvertToHtml ==
    /\ AtFile /\ stage = "segmented"
    /\ body' = <<Node("text", pre_html)>>
    /\ html' = RawHtml(body')
    /\ stage' = "rendered"
    /\ UNCHANGED <<segVars, idVars, mainVars>>

\* make_docs 633-635
MakeToc ==
    /\ AtFile /\ stage = "rendered"
    /\ html' = IF Contains(html, toc_tag) THEN create_toc_table[body] ELSE html
    /\ stage' = "toc_done"
    /\ UNCHANGED <<body, segVars, idVars, mainVars>>

\* make_docs 637-656 and save_as: the destination, the write, the report,
\* and on to the next file
SaveAs ==
    /\ AtFile /\ stage = "toc_done"
    /\ writable
    /\ LET out == html_file_path_table[code_file_path]
       IN  docs' = [q \in (DOMAIN docs) \cup {out} |-> IF q = out THEN html ELSE docs[q]]
    /\ log' = Append(log, <<"write", code_file_path>>)
    /\ stdout' = IF print_production
                 THEN Append(stdout, Report(code_file_path, html_file_path_table[code_file_path]))
                 ELSE stdout
    /\ file_number' = file_number + 1
    /\ stage' = "next"
    /\ UNCHANGED <<segVars, tocVars, idVars, print_production, pc, watch, files, code_files,
                   disk, writable, polls>>

\* save_as: makedirs or open raises, nothing catches it
SaveAsRaises ==
    /\ AtFile /\ stage = "toc_done"
    /\ ~writable
    /\ pc' = "raised"
    /\ UNCHANGED <<segVars, tocVars, idVars, outVars, stage, watch, files, code_files, file_number,
                   disk, docs, writable, polls, log>>

Returns == pc \in InMakeDocs /\ stage = "next" /\ file_number > Len(code_files)

\* main 674-678: the initial make_docs has returned and the flag is set
StartWatching ==
    /\ Returns /\ pc = "initial" /\ watch
    /\ pc' = "watching"
    /\ Enter
    /\ print_production' = FALSE
    /\ stdout' = stdout \o <<<<"Watching...">>, <<"Ctrl+c to exit">>>>
    /\ UNCHANGED <<segVars, tocVars, idVars, watch, files, code_files, disk, docs, writable, polls>>

\* main 681: the initial make_docs has returned and the flag is not set
Finish ==
    /\ Returns /\ pc = "initial" /\ ~watch
    /\ pc' = "done"
    /\ stdout' = Append(stdout, <<>>)
    /\ UNCHANGED <<segVars, tocVars, idVars, print_production, stage, watch, files, code_files, file_number,
                   disk, docs, writable, polls, log>>

\* main 679: time.sleep(3) after a make_docs of the loop
Sleep ==
    /\ Returns /\ pc = "watching"
    /\ pc' = "sleep"
    /\ polls' = IF polls < MaxPolls THEN polls + 1 ELSE polls
    /\ UNCHANGED <<segVars, tocVars, idVars, outVars, stage, watch, files, code_files, file_number,
                   disk, docs, writable, log>>

\* main 677-678: while True, the next make_docs
Wake ==
    /\ pc = "sleep"
    /\ pc' = "watching"
    /\ Enter
    /\ UNCHANGED <<segVars, tocVars, idVars, outVars, watch, files, code_files, disk, docs, writable, polls>>

\* The steps of the program
Step ==
    \/ Startup
    \/ GetCode
    \/ GetCodeRaises
    \/ ConvertBlocks
    \/ ConvertToHtml
    \/ MakeToc
    \/ SaveAs
    \/ SaveAsRaises
    \/ StartWatching
    \/ Finish
    \/ Sleep
    \/ Wake

\* The world around the program, while it runs: a source is edited, a
\* source is removed, the destinations stop being writable, the process is
\* ended from outside
Edit ==
    /\ pc \in Running
    /\ \E p \in DOMAIN disk : disk' = [disk EXCEPT ![p] = Edited(disk[p])]
    /\ UNCHANGED <<segVars, tocVars, idVars, outVars, stage, pc, watch, files, code_files, file_number,
                   docs, writable, polls, log>>

Remove ==
    /\ pc \in Running
    /\ \E p \in DOMAIN disk : disk' = [q \in (DOMAIN disk) \ {p} |-> disk[q]]
    /\ UNCHANGED <<segVars, tocVars, idVars, outVars, stage, pc, watch, files, code_files, file_number,
                   docs, writable, polls, log>>

Protect ==
    /\ pc \in Running
    /\ writable
    /\ writable' = FALSE
    /\ UNCHANGED <<segVars, tocVars, idVars, outVars, stage, pc, watch, files, code_files, file_number,
                   disk, docs, polls, log>>

Kill ==
    /\ pc \in Running
    /\ pc' = "killed"
    /\ UNCHANGED <<segVars, tocVars, idVars, outVars, stage, watch, files, code_files, file_number,
                   disk, docs, writable, polls, log>>

Next == Step \/ Edit \/ Remove \/ Protect \/ Kill

Spec == Init /\ [][Next]_vars

\* The program takes its next step as long as it has one
FairSpec == Spec /\ WF_vars(Step)

-----------------------------------------------------------------------------
(* make_docs called on a list of the caller's choosing (an importing        *)
(* program), next to main's calls                                          *)

\* The lists of such a call: with a file of no supported kind first, in
\* the middle, alone
Batches == {<<a_py, n_txt, r_md>>, <<n_txt, d_q_sql>>, <<n_txt>>}

InitCall ==
    /\ pc = "direct"
    /\ watch = FALSE
    /\ files = <<>>
    /\ code_files \in Batches
    /\ file_number = 1
    /\ disk = [p \in Range(code_files) |-> PlainText]
    /\ docs = <<>>
    /\ writable = TRUE
    /\ polls = 0
    /\ log = <<>>
    /\ print_production \in BOOLEAN
    /\ stdout = <<>>
    /\ stage = "next"
    /\ code = <<>>
    /\ pre_html = <<>>
    /\ NoToc
    /\ NoId

\* make_docs 620: the for loop is exhausted, the call returns
ReturnToCaller ==
    /\ Returns /\ pc = "direct"
    /\ pc' = "returned"
    /\ UNCHANGED <<segVars, tocVars, idVars, outVars, stage, watch, files, code_files,
                   file_number, disk, docs, writable, polls, log>>

SpecBatch == (Init \/ InitCall) /\ [][Next \/ ReturnToCaller]_vars

-----------------------------------------------------------------------------
(* The destination step of make_docs (src/mindoc.py 637-656) on its own:    *)
(* one file, read and converted, about to be saved                         *)

InitPath ==
    /\ pc = "direct"
    /\ watch = FALSE
    /\ files = <<>>
    /\ code_files \in {<<p>> : p \in PathInputs}
    /\ file_number = 1
    /\ disk = [p \in Range(code_files) |-> PlainText]
    /\ docs = <<>>
    /\ writable = TRUE
    /\ polls = 0
    /\ log = <<<<"read", code_files[1]>>>>
    /\ print_production \in BOOLEAN
    /\ stdout = <<>>
    /\ stage = "toc_done"
    /\ code = PlainText
    /\ pre_html = blocks_of(code_files[1], code)
    /\ body = <<Node("text", pre_html)>>
    /\ html = RawHtml(body)
    /\ NoId

SpecPath == InitPath /\ [][SaveAs \/ ReturnToCaller]_vars

-----------------------------------------------------------------------------
(* What the claims about the .py segmenter speak of *)

Count(s, atom) == Cardinality({i \in 1..Len(s) : s[i] = atom})

\* Where pat occurs in s, overlapping occurrences included, in ascending order
Occurrences(s, pat) == {i \in 1..Len(s) : StartsAt(s, i, pat)}

RECURSIVE Ascending(_)
Ascending(S) ==
    IF S = {} THEN <<>>
    ELSE LET m == CHOOSE x \in S : \A y \in S : x <= y
         IN  <<m>> \o Ascending(S \ {m})

\* The source after the newline fix and the removal of the first fence, and
\* where the newline-bounded fence delimiters that remain in it start
AfterFirst == RemoveFirstFtdq(FixNewlines(code))
Remaining == Ascending(Occurrences(AfterFirst, ftdq))

\* No two delimiters at ps share a newline (no two fence lines in a row)
Separated(ps) == \A k \in 1..(Len(ps) - 1) : ps[k + 1] - ps[k] >= Len(ftdq)

\* s from index from on, with the delimiters at ps replaced by position: the
\* n-th, (n+1)-th, ... of them by oddMark when odd and evenMark when even.
RECURSIVE Stitch(_, _, _, _, _, _)
Stitch(s, ps, from, n, oddMark, evenMark) ==
    IF ps = <<>> THEN SubSeq(s, from, Len(s))
    ELSE SubSeq(s, from, ps[1] - 1)
         \o (IF n % 2 = 1 THEN oddMark ELSE evenMark)
         \o Stitch(s, Tail(ps), ps[1] + Len(ftdq), n + 1, oddMark, evenMark)

\* C1 as claimed: of the remaining delimiters the 1st, 3rd, 5th, ... becomes
\* code-closing markup and the 2nd, 4th, 6th, ... code-opening markup.
C1_AsClaimed ==
    stage = "segmented" =>
        LET s == AfterFirst
            ps == Remaining
        IN  Separated(ps) =>
                pre_html = Stitch(s, ps, 1, 1, py_replace_with_post, py_replace_with_pre)
                           \o py_replace_with_post

\* C1 amended: when no two remaining delimiters share a newline, the 1st, 3rd,
\* 5th, ... remaining delimiter is replaced with code-opening markup and the
\* 2nd, 4th, 6th, ... with code-closing markup, everything else is unchanged,
\* and one closing markup follows at the end.
C1_Dispatch ==
    stage = "segmented" =>
        LET s == AfterFirst
            ps == Remaining
        IN  Separated(ps) =>
                pre_html = Stitch(s, ps, 1, 1, py_replace_with_pre, py_replace_with_post)
                           \o py_replace_with_post

C1_Witness ==
    /\ stage = "segmented"
    /\ Len(Remaining) >= 4
    /\ Separated(Remaining)
    /\ Count(pre_html, collapsible_button) = 2

\* C2 as claimed: the source """doc"""\ncode comes out as doc, then one code
\* viewer holding code, with no delimiter left over.
C2_AsClaimed ==
    (stage = "segmented" /\ code = PyExampleInline) =>
        /\ SubSeq(pre_html, 1, 3) = <<"d", "o", "c">>
        /\ Count(pre_html, QUOTE) = 0
        /\ Count(pre_html, collapsible_button) = 1
        /\ EndsWith(pre_html, <<"c", "o", "d", "e">> \o py_replace_with_post)

\* C2 amended: for a source that begins with a fence line the first fence
\* produces no boundary markup: the output starts with the documentation text
\* that follows the first fence line, verbatim up to the next delimiter, where
\* the first code viewer opens (or, with no further delimiter, up to the
\* closing markup appended at the end); """\ndoc\n"""\ncode comes out as doc,
\* the code-opening markup, code, the code-closing markup.
C2_FirstFenceDiscarded ==
    stage = "segmented" =>
        LET fixed == FixNewlines(code)
            rest == SubSeq(fixed, Len(first_ftdq) + 1, Len(fixed))
            p == Find(rest, ftdq, 1)
            d == IF p = 0 THEN Len(rest) ELSE p - 1
        IN  /\ StartsAt(fixed, 1, first_ftdq) =>
                /\ SubSeq(pre_html, 1, d) = SubSeq(rest, 1, d)
                /\ StartsAt(pre_html, d + 1,
                            IF p = 0 THEN py_replace_with_post ELSE py_replace_with_pre)
            /\ code = PyExampleFenced =>
                pre_html = <<"d", "o", "c">> \o py_replace_with_pre
                           \o <<"c", "o", "d", "e">> \o py_replace_with_post

C2_Witness ==
    /\ stage = "segmented"
    /\ code = PyExampleFenced
    /\ pre_html[1] = "d"

\* Where the fence lines of the (newline-fixed) source start: a fence that
\* opens the file, and every newline-bounded one
FenceLines ==
    LET fixed == FixNewlines(code)
    IN  Ascending((IF StartsAt(fixed, 1, first_ftdq) THEN {1} ELSE {})
                  \cup {i + 1 : i \in Occurrences(fixed, ftdq)})

\* The source follows the convention: it begins with a fence line and no two
\* fence lines follow each other directly
FencedByConvention(fl) ==
    /\ fl # <<>>
    /\ fl[1] = 1
    /\ \A k \in 1..(Len(fl) - 1) : fl[k + 1] - fl[k] >= Len(ftdq)

\* The code-opening and code-closing markups of a text, in document order
IsMarker(a) == a \in {collapsible_button, ediv}
MarkerSeq(s) == SelectSeq(s, IsMarker)

RECURSIVE Repeat(_, _)
Repeat(s, n) == IF n = 0 THEN <<>> ELSE s \o Repeat(s, n - 1)

-----------------------------------------------------------------------------
(* What the claims about the table of contents speak of *)

HasToc == Contains(RawHtml(body), toc_tag)

\* No indexed heading has a square bracket in its text
Bracketless(nodes) ==
    \A k \in 1..Len(nodes) :
        IsIndexed(nodes[k]) =>
            (Count(nodes[k].string, "[") = 0 /\ Count(nodes[k].string, "]") = 0)

\* No indexed heading is called TOC
NoTocHeading(nodes) ==
    \A k \in 1..Len(nodes) :
        IsIndexed(nodes[k]) => Trimmed(nodes[k].string) # <<"T", "O", "C">>

\* The heading's element carries its identifier as id
CarriesId(text, node) ==
    Contains(text, <<"<" \o node.name \o " id=\"">> \o HeaderId(node.string) \o <<"\">">>)

\* C4 as claimed: whatever the document, after make_docs' table-of-contents
\* step every bracketed heading text the document held is a link to the
\* heading's identifier, none is left literal, and the heading carries that
\* identifier.  (Checked on headings without square brackets, none of them
\* called TOC; with these and the placeholder in the document it holds.)
C4_AsClaimed ==
    (stage = "toc_done" /\ Bracketless(body) /\ NoTocHeading(body)) =>
        \A k \in 1..Len(body) :
            (IsIndexed(body[k]) /\ Contains(RawNodes(body), cross_ref_tag(body[k].string))) =>
                /\ ~Contains(html, cross_ref_tag(body[k].string))
                /\ Contains(html, cross_ref_html([string |-> body[k].string,
                                                   id |-> HeaderId(body[k].string)]))
                /\ CarriesId(html, body[k])

\* The links of all headings put in at once: scanning text from the left,
\* every bracketed heading marker found in it is replaced by the anchor of the
\* first heading with that marker, and nothing else changes.
RECURSIVE LinkedAtOnce(_, _)
LinkedAtOnce(text, headers) ==
    LET MarkersAt(i) == {k \in 1..Len(headers) :
                            StartsAt(text, i, cross_ref_tag(headers[k].string))}
        starts == {i \in 1..Len(text) : text[i] = "[" /\ MarkersAt(i) # {}}
    IN  IF starts = {} THEN text
        ELSE LET i == CHOOSE x \in starts : \A y \in starts : x <= y
                 k == CHOOSE x \in MarkersAt(i) : \A y \in MarkersAt(i) : x <= y
                 m == cross_ref_tag(headers[k].string)
             IN  SubSeq(text, 1, i - 1) \o cross_ref_html(headers[k])
                 \o LinkedAtOnce(SubSeq(text, i + Len(m), Len(text)), headers)

\* create_toc's passes, one at a time: the text after the first k of them
AfterPass(nodes, k) ==
    CrossReference(Replace(Prettify(nodes), toc_tag, toc_html(nodes), 1),
                   SubSeq(header_list(nodes), 1, k))

IntroSetupLinked ==
    body = ExampleIntroSetup =>
        LET hl == header_list(body)
            before == Replace(Prettify(body), toc_tag, toc_html(body), 1)
        IN  /\ hl[1].id = <<"i", "n", "t", "r", "o">>
            /\ hl[2].id = <<"s", "e", "t", "u", "p">>
            /\ Contains(before, cross_ref_tag(hl[1].string))
            /\ Contains(before, cross_ref_tag(hl[2].string))
            /\ html = ReplaceAll(ReplaceAll(before,
                                            <<"[", "I", "n", "t", "r", "o", "]">>,
                                            cross_ref_html(hl[1])),
                                 <<"[", "S", "e", "t", "u", "p", "]">>,
                                 cross_ref_html(hl[2]))
            /\ Cardinality(Occurrences(html, cross_ref_html(hl[1]))) = 1
            /\ Cardinality(Occurrences(html, cross_ref_html(hl[2]))) = 1

\* C5 as claimed: the example holds, and for any headings the inserted table
\* of contents and every anchor a pass has produced are still intact in the
\* result.
C5_AsClaimed ==
    (stage = "toc_done" /\ HasToc) =>
        /\ IntroSetupLinked
        /\ Contains(html, toc_html(body))
        /\ \A k \in 1..Len(header_list(body)) :
              LET a == cross_ref_html(header_list(body)[k])
              IN  Cardinality(Occurrences(html, a))
                      >= Cardinality(Occurrences(AfterPass(body, k), a))

\* C5 amended: the example holds, and for headings whose text holds no square
\* bracket the result is the prettified document with the table of contents
\* in place of the first placeholder, unchanged, and with exactly the
\* bracketed heading markers of the document's own text turned into links:
\* no pass rewrites a table-of-contents entry or an earlier pass's anchor.
C5_OnlyMarkersChange ==
    (stage = "toc_done" /\ HasToc) =>
        /\ IntroSetupLinked
        /\ Bracketless(body) =>
              LET pretty == Prettify(body)
                  p == Find(pretty, toc_tag, 1)
                  hl == header_list(body)
              IN  html = LinkedAtOnce(SubSeq(pretty, 1, p - 1), hl)
                         \o toc_html(body)
                         \o LinkedAtOnce(SubSeq(pretty, p + Len(toc_tag), Len(pretty)), hl)

C5_Witness ==
    /\ stage = "toc_done"
    /\ body = ExampleIntroSetup
    /\ Contains(html, <<"<a style=\"color: #555; text-decoration: none;\" href=\"#",
                        "s", "e", "t", "u", "p", "\">", "S", "e", "t", "u", "p", "</a>">>)

\* Placeholders of the prettified document, and those after the inserted
\* table of contents in the result
Placeholders(text) == Cardinality(Occurrences(text, toc_tag))
AfterToc(text, nodes) ==
    LET t == toc_html(nodes)
        i == Find(text, t, 1)
    IN  SubSeq(text, i + Len(t), Len(text))

\* C6 as claimed: with two or more placeholders the table of contents stands
\* where the first was and every later one is still the literal [TOC].
\* (Checked on headings without square brackets.)
C6_AsClaimed ==
    (stage = "toc_done" /\ Bracketless(body) /\ Placeholders(Prettify(body)) >= 2) =>
        /\ Contains(html, toc_html(body))
        /\ Placeholders(AfterToc(html, body)) = Placeholders(Prettify(body)) - 1

\* C6 amended: the same, provided no level 1-4 heading is called TOC and none
\* holds a square bracket: the table of contents is inserted once, at the
\* first placeholder, and the later placeholders are still literal.
C6_SingleInsertion ==
    (stage = "toc_done" /\ Bracketless(body) /\ NoTocHeading(body)
        /\ Placeholders(Prettify(body)) >= 2) =>
        LET pretty == Prettify(body)
            t == toc_html(body)
            i == Find(html, t, 1)
        IN  /\ i # 0
            /\ Cardinality(Occurrences(html, t)) = 1
            /\ Placeholders(SubSeq(html, 1, i - 1)) = 0
            /\ Cardinality(Occurrences(SubSeq(html, 1, i - 1), <<NL>>))
                   = Cardinality(Occurrences(SubSeq(pretty, 1, Find(pretty, toc_tag, 1) - 1), <<NL>>))
            /\ Placeholders(AfterToc(html, body)) = Placeholders(pretty) - 1

C6_Witness ==
    /\ stage = "toc_done"
    /\ Bracketless(body)
    /\ NoTocHeading(body)
    /\ Headers(body) # <<>>
    /\ Placeholders(Prettify(body)) = 3
    /\ Placeholders(html) = 2

\* Where the indexed headings' elements open in a text
HeadingOpens(text) ==
    Ascending({i \in 1..Len(text) :
                 text[i] \in {"<h1 id=\"", "<h2 id=\"", "<h3 id=\"", "<h4 id=\""}})

BackLinkOpen == "<a style=\"font-size: 10px; color: #555;\" href=\"#toc\">"
BackLinkShape ==
    <<BackLinkOpen, NL, " ", " ", " ", "T", "O", "C", NL, " ", " ", "</a>", NL,
      " ", " ", "<br>", NL>>

\* C8: with k >= 1 headings of level 1-4, exactly k-1 back-to-contents links
\* are in create_toc's result: each such heading but the first is directly
\* followed by a link to #toc and a line break, the first is not.
C8_BackLinks ==
    (stage = "toc_done" /\ HasToc /\ Headers(body) # <<>>) =>
        LET hs == Headers(body)
            opens == HeadingOpens(html)
        IN  /\ Len(opens) = Len(hs)
            /\ Count(html, BackLinkOpen) = Len(hs) - 1
            /\ \A k \in 1..Len(hs) :
                  LET close == Find(html, <<endtag(hs[k].name)>>, opens[k])
                  IN  /\ close # 0
                      /\ (k > 1) <=> StartsAt(html, close + 4, BackLinkShape)

C8_Witness ==
    /\ stage = "toc_done"
    /\ HasToc
    /\ Len(Headers(body)) = 4
    /\ Count(html, BackLinkOpen) = 3

-----------------------------------------------------------------------------
(* What the claim about the heading identifier speaks of *)

\* The heading string without its newlines and tabs
RECURSIVE Unbroken(_)
Unbroken(s) ==
    IF s = <<>> THEN <<>>
    ELSE IF s[1] \in {"\n", "\t"} THEN Unbroken(Tail(s))
    ELSE <<s[1]>> \o Unbroken(Tail(s))

\* s[a+1 .. Len(s)-b] is s without its leading and trailing whitespace
StripsTo(s, a, b) ==
    /\ \A k \in 1..a : s[k] \in Whitespace
    /\ \A k \in (Len(s) - b + 1)..Len(s) : s[k] \in Whitespace
    /\ a + b < Len(s) => (s[a + 1] \notin Whitespace /\ s[Len(s) - b] \notin Whitespace)

\* What one character of the stripped string becomes in the identifier
IdChar(c) ==
    CASE c \in {" ", "."} -> "_"
      [] c = "M" -> "m"
      [] c = "S" -> "s"
      [] OTHER -> c

\* C9: the identifier is the heading string without newlines and tabs,
\* stripped, with every space and period an underscore and every letter
\* lower-case ("My Section." gives my_section_); deriving an identifier
\* from an identifier the derivation produced returns it unchanged.
C9_Identifier ==
    /\ stage \in {"identified", "identified_again"} =>
          /\ LET u == Unbroken(heading)
             IN  \E a \in 0..Len(u) : \E b \in 0..(Len(u) - a) :
                     /\ StripsTo(u, a, b)
                     /\ Len(header_id) = Len(u) - a - b
                     /\ \A k \in 1..Len(header_id) : header_id[k] = IdChar(u[a + k])
          /\ heading = ExampleMySection =>
                header_id = <<"m", "y", "_", "s", "e", "c", "t", "i", "o", "n", "_">>
    /\ stage = "identified_again" => header_string = header_id

\* An identifier that differs from its heading string in every way the
\* derivation provides for, derived a second time
C9_Witness ==
    /\ stage = "identified_again"
    /\ heading = <<"\n", "M", " ", ".">>
    /\ header_id = <<"m", "_", "_">>
    /\ header_string = header_id

-----------------------------------------------------------------------------
(* What the claim about the watch loop speaks of *)

\* The kinds of supported files, in the order main lists them
Kind(path) == IF IsPy(path) THEN 1 ELSE IF IsSql(path) THEN 2 ELSE IF IsMd(path) THEN 3 ELSE 0

PlaceIn(s, x) == CHOOSE k \in 1..Len(s) : s[k] = x

\* The list is what glob returned, the supported files only, by kind and
\* within a kind in glob's order
ListedFromGlob ==
    /\ Range(code_files) = {x \in Range(files) : Kind(x) # 0}
    /\ \A j, k \in 1..Len(code_files) :
           j < k =>
               /\ code_files[j] # code_files[k]
               /\ Kind(code_files[j]) <= Kind(code_files[k])
               /\ Kind(code_files[j]) = Kind(code_files[k]) =>
                      PlaceIn(files, code_files[j]) < PlaceIn(files, code_files[k])

\* Every file of the list read and then written, in list order, nothing else
RECURSIVE ReadsAndWrites(_)
ReadsAndWrites(list) ==
    IF list = <<>> THEN <<>>
    ELSE <<<<"read", list[1]>>, <<"write", list[1]>>>> \o ReadsAndWrites(Tail(list))

\* The output of a file is in place, made from what the file holds now
UpToDate(path) ==
    /\ path \in DOMAIN disk
    /\ html_file_path(path) \in DOMAIN docs
    /\ LET text == <<Node("text", blocks_of(path, disk[path]))>>
       IN  docs[html_file_path(path)] =
               IF Contains(RawHtml(text), toc_tag) THEN create_toc(text) ELSE RawHtml(text)

Watching == watch /\ pc \in Running

\* The file has just been converted by the watch loop
JustSaved(path) ==
    /\ pc = "watching" /\ stage = "next"
    /\ file_number > 1
    /\ code_files[file_number - 1] = path

InList(path) == path \in Range(code_files)

\* What holds of the list and of the loop whatever happens around them
WatchSafety ==
    /\ stage # "start" => ListedFromGlob
    /\ watch => pc # "done"
    /\ pc = "sleep" => log = ReadsAndWrites(code_files)

ListKept == stage # "start" => code_files' = code_files

-----------------------------------------------------------------------------
(* What the claim about a failing read or write speaks of *)

\* The files of the list before the one at hand
Earlier == SubSeq(code_files, 1, file_number - 1)

\* The read of the file at hand has failed, or its write has
ReadFailed == stage = "next" /\ code_file_path \notin DOMAIN disk
WriteFailed == stage = "toc_done" /\ ~writable

\* In a make_docs call, raised or not, the files before the one at hand have
\* each been read and written, in list order, and their outputs exist;
\* when the call has raised, the file at hand is one of the list, its read
\* or its write is what failed, and nothing was logged past it
FailureAborts ==
    /\ pc \in InMakeDocs \cup {"raised"} =>
           /\ Len(log) >= 2 * Len(Earlier)
           /\ SubSeq(log, 1, 2 * Len(Earlier)) = ReadsAndWrites(Earlier)
           /\ \A k \in 1..Len(Earlier) : html_file_path(Earlier[k]) \in DOMAIN docs
    /\ pc = "raised" =>
           /\ file_number \in 1..Len(code_files)
           /\ ReadFailed \/ WriteFailed
           /\ log = ReadsAndWrites(Earlier)
                      \o (IF WriteFailed THEN <<<<"read", code_file_path>>>> ELSE <<>>)

\* Once raised, nothing is read, converted or written any more
RaisedIsFinal == pc = "raised" => UNCHANGED vars

\* C11: a read or a write that fails for the i-th file of the list is not
\* caught: files 1..i-1 have been read and written and their outputs stay,
\* file i is not written, no later file is touched, and the failure leaves
\* make_docs, the watch loop included.
C11_FailurePropagates == []FailureAborts /\ [][RaisedIsFinal]_vars

\* The write of the second file fails in an iteration of the watch loop,
\* after the first file's output was written
C11_Witness ==
    /\ pc = "raised"
    /\ polls >= 1
    /\ file_number = 2
    /\ WriteFailed
    /\ html_file_path(code_files[1]) \in DOMAIN docs

-----------------------------------------------------------------------------
(* What the claim about files of no supported kind speaks of *)

Unsupported(path) == Kind(path) = 0

\* The page of an empty documentation body
EmptyBody == <<Node("text", <<>>)>>

\* How many of the lines are the diagnostic
Diagnostics(lines) == Cardinality({k \in 1..Len(lines) : lines[k] = NOT_SUPPORTED})

\* How many files of the list are of no supported kind
UnsupportedIn(list) == Cardinality({k \in 1..Len(list) : Unsupported(list[k])})

\* The file at hand has been through the dispatch
Dispatched == stage \in {"segmented", "rendered", "toc_done"}

\* C12: a file of no supported kind gets the diagnostic line, once, and an
\* empty body, which is rendered and saved like any other, and the files
\* after it are converted too; the lists main builds hold no such file.
C12_UnsupportedKind ==
    /\ (pc \in InMakeDocs /\ AtFile /\ Unsupported(code_file_path)) =>
           /\ Dispatched => (pre_html = <<>> /\ stdout[Len(stdout)] = NOT_SUPPORTED)
           /\ stage \in {"rendered", "toc_done"} => (body = EmptyBody /\ html = RawHtml(EmptyBody))
    /\ pc \in InMakeDocs =>
           /\ Diagnostics(stdout) =
                  UnsupportedIn(Earlier) + (IF AtFile /\ Dispatched /\ Unsupported(code_file_path)
                                            THEN 1 ELSE 0)
           /\ \A k \in 1..Len(Earlier) :
                  Unsupported(Earlier[k]) =>
                      /\ html_file_path(Earlier[k]) \in DOMAIN docs
                      /\ docs[html_file_path(Earlier[k])] = RawHtml(EmptyBody)
    /\ pc = "returned" => log = ReadsAndWrites(code_files)
    /\ pc \in {"initial", "watching", "sleep", "done"} =>
           /\ \A k \in 1..Len(code_files) : ~Unsupported(code_files[k])
           /\ Diagnostics(stdout) = 0

\* A list with a file of no supported kind in the middle, converted to
\* its end
C12_Witness ==
    /\ pc = "returned"
    /\ code_files = <<a_py, n_txt, r_md>>
    /\ Diagnostics(stdout) = 1
    /\ log = ReadsAndWrites(code_files)
    /\ docs[html_file_path(n_txt)] = RawHtml(EmptyBody)
    /\ html_file_path(r_md) \in DOMAIN docs

-----------------------------------------------------------------------------
(* What the claim about the destination speaks of *)

\* Where the last c of s is, 0 when there is none
LastOf(s, c) ==
    LET at == {k \in 1..Len(s) : s[k] = c}
    IN  IF at = {} THEN 0 ELSE CHOOSE k \in at : \A j \in at : j <= k

\* The file name with its extension, and nothing else, swapped for .html
Swapped(name) == SubSeq(name, 1, LastOf(name, ".") - 1) \o HTML

\* The directory the path names, and the name of that directory
DirOf(path) == SubSeq(path, 1, LastOf(path, "/") - 1)
NameOf(path) == SubSeq(path, LastOf(path, "/") + 1, Len(path))

\* The destination as the documentation gives it
Documented(path) ==
    LET dir == DirOf(path)
        name == Swapped(NameOf(path))
        above == SubSeq(dir, 1, LastOf(dir, "/"))
    IN  IF IsMd(path) THEN (IF dir = <<>> THEN <<".">> ELSE dir) \o <<"/">> \o name
        ELSE IF dir = <<>> THEN <<".", "/", "d", "o", "c", "s", "/">> \o name
        ELSE IF NameOf(dir) = <<"s", "r", "c">> THEN above \o <<"d", "o", "c", "s", "/">> \o name
        ELSE dir \o <<"/", "d", "o", "c", "s", "/">> \o name

Saved == pc \in {"direct", "returned"} /\ file_number = 2

\* C13 as claimed: the one file written is the documented destination:
\* the name with only its extension swapped, in docs beside the input, in
\* docs in place of a directory named src, beside the input for .md.
C13_AsClaimed == Saved => DOMAIN docs = {Documented(code_files[1])}

\* The name holds no second .py, .sql or .md
PlainName(path) ==
    LET name == NameOf(path)
        stem == SubSeq(name, 1, LastOf(name, ".") - 1)
    IN  ~Contains(stem, PY) /\ ~Contains(stem, SQL) /\ ~Contains(stem, MD)

\* The directory's name does not merely end in src
PlainDir(path) ==
    LET dir == NameOf(DirOf(path))
    IN  EndsWith(dir, <<"s", "r", "c">>) => dir = <<"s", "r", "c">>

\* Paths with such a name and such a directory go where the documentation
\* says
C13_PlainPaths ==
    (Saved /\ PlainName(code_files[1]) /\ (IsMd(code_files[1]) \/ PlainDir(code_files[1]))) =>
        DOMAIN docs = {Documented(code_files[1])}

-----------------------------------------------------------------------------
(* C14: which triple-quote delimiters of a .py file are boundaries *)

\* The lines of a text, a trailing newline giving a last, empty line
RECURSIVE SplitLines(_)
SplitLines(s) ==
    LET i == Find(s, <<NL>>, 1)
    IN  IF i = 0 THEN <<s>>
        ELSE <<SubSeq(s, 1, i - 1)>> \o SplitLines(SubSeq(s, i + 1, Len(s)))

SourceLines == SplitLines(FixNewlines(code))

BeginsWithFence == Len(SourceLines) >= 2 /\ SourceLines[1] = FenceLine

HasDelimiter(line) == Occurrences(line, <<QUOTE, QUOTE, QUOTE>>) # {}

\* A line that holds a delimiter without being a fence line: the delimiter
\* is indented or shares the line with other text
IsOtherDelimiter(line) == HasDelimiter(line) /\ line # FenceLine

IsFenceLine(line) == line = FenceLine

OutputLines == SplitLines(pre_html)

\* C14: in a .py file that begins with a fence line, a triple-quote delimiter
\* that is indented or shares its line with other text is never removed and
\* never replaced by boundary markup: the lines holding such delimiters are in
\* the output verbatim and in order, and the boundary markups of the output,
\* the appended one aside, are one for each fence line (unindented, alone on
\* its line) that is gone from the source, the removed first line aside.
C14_OnlyFenceLines ==
    (stage = "segmented" /\ BeginsWithFence) =>
        /\ SelectSeq(OutputLines, IsOtherDelimiter)
                = SelectSeq(SourceLines, IsOtherDelimiter)
        /\ Len(MarkerSeq(pre_html)) - 1
                = Len(SelectSeq(SourceLines, IsFenceLine))
                  - Len(SelectSeq(OutputLines, IsFenceLine)) - 1

\* A file with a boundary after the first line, an indented delimiter and a
\* delimiter sharing its line with text, both still there after conversion.
C14_Witness ==
    /\ stage = "segmented"
    /\ BeginsWithFence
    /\ Count(pre_html, collapsible_button) = 1
    /\ \E k \in 2..Len(SourceLines) : SourceLines[k] = IndentedFenceLine
    /\ \E k \in 2..Len(SourceLines) :
            IsOtherDelimiter(SourceLines[k]) /\ SourceLines[k][1] = QUOTE
    /\ \E k \in 1..Len(OutputLines) : OutputLines[k] = IndentedFenceLine
    /\ \E k \in 1..Len(OutputLines) :
            IsOtherDelimiter(OutputLines[k]) /\ OutputLines[k][1] = QUOTE

-----------------------------------------------------------------------------
(* C15: a .py file with an even number of fence lines *)

\* Which lines of the source are fence lines: unindented and alone on the line
FenceLineNumbers == {k \in 1..Len(SourceLines) : SourceLines[k] = FenceLine}

\* The source begins with a fence line, every delimiter in it is a fence
\* line, there is an even number of them, and at least one other line lies
\* between any two.
EvenFenced ==
    /\ BeginsWithFence
    /\ \A k \in 1..Len(SourceLines) : ~IsOtherDelimiter(SourceLines[k])
    /\ Cardinality(FenceLineNumbers) % 2 = 0
    /\ \A j, k \in FenceLineNumbers : j < k => k - j >= 2

\* The last fence line is followed by a newline
LastFenceEnded == Len(SourceLines) \notin FenceLineNumbers

\* Openings and closings alternate, beginning with an opening and ending with
\* the appended closing, one pair for every two fence lines.
Alternating ==
    /\ MarkerSeq(pre_html)
            = Repeat(<<collapsible_button, ediv>>, Cardinality(FenceLineNumbers) \div 2)
    /\ EndsWith(pre_html, py_replace_with_post)

\* C15 as claimed: a source that begins with a fence line and holds an even
\* number of fence delimiters, each unindented and alone on its line with at
\* least one other line between any two, gives equally many code-opening and
\* code-closing markups, alternating opening, closing, ... from an opening to
\* the closing appended at the end.
C15_AsClaimed == (stage = "segmented" /\ EvenFenced) => Alternating

\* C15 amended: the same, for a source whose last fence line is followed by a
\* newline.
C15_EvenFences ==
    (stage = "segmented" /\ EvenFenced /\ LastFenceEnded) => Alternating

\* Four fence lines, the last one ended by a newline: two viewers, the second
\* closed by the appended markup.
C15_Witness ==
    /\ stage = "segmented"
    /\ EvenFenced
    /\ LastFenceEnded
    /\ Cardinality(FenceLineNumbers) = 4
    /\ MarkerSeq(pre_html) = <<collapsible_button, ediv, collapsible_button, ediv>>

=============================================================================
